---- MODULE Spec2Model ----
(***************************************************************************)
(* Model of the VoiceToText component (src/src/component/VoiceToText.jsx): *)
(* the React state of the component, its two refs, the SpeechRecognition   *)
(* instance r it creates on mount, the handlers it installs on r, the      *)
(* toggleListening / handleClear intent handlers and the effect cleanup.   *)
(* Strings are sequences of characters.                                    *)
(***************************************************************************)
EXTENDS Integers, Sequences, FiniteSets, TLC

\* ---------------------------------------------------------------- bounds
\* Longest event.results list the engine delivers.
MaxResults == 2
\* Longest finalTranscript kept (result events that would exceed it are not delivered).
MaxText == 8
\* Most r.start() invocations in one run.
MaxStarts == 2
\* Most toggleListening calls suspended at `await getUserMedia` at once.
MaxAwait == 2

\* ---------------------------------------------------------------- values
Null == "null"

Space == " "

\* Language tags the <select> offers (two of its options).
Languages == {"en-US", "hi-IN"}

\* The results the engine reports, each by its top alternative res[0]: an interim
\* result, a final result without text, a final result with plain text, and a
\* final result whose text carries the blanks the engine puts around words.
\* Confidences are decimal numerals.
Entries ==
    { [isFinal |-> FALSE, transcript |-> <<"a">>,             confidence |-> "0"],
      [isFinal |-> TRUE,  transcript |-> <<>>,                confidence |-> "0.5"],
      [isFinal |-> TRUE,  transcript |-> <<"a">>,             confidence |-> "0.5"],
      [isFinal |-> TRUE,  transcript |-> <<Space, "a", Space>>, confidence |-> "0.9"] }

ResultLists == UNION { [1..n -> Entries] : n \in 0..MaxResults }

\* A SpeechRecognitionEvent: results and resultIndex (0-based, <= results.length).
Events ==
    { e \in [results : ResultLists, resultIndex : 0..MaxResults] :
        e.resultIndex <= Len(e.results) }

VARIABLES
    phase,              \* "init" (rendered, effects not run), "mounted", "unmounted"
    supported,          \* useState(true)
    listening,          \* useState(false)
    finalTranscript,    \* useState("")
    interimTranscript,  \* useState("")
    recognitionRef,     \* recognitionRef.current is the instance r (TRUE) or null (FALSE)
    timerRef,           \* a timeout set through timerRef.current is pending
    capturedListening,  \* the value of `listening` the mount effect's closure holds
    handlers,           \* r.onresult / r.onend / r.onerror are installed
    engState,           \* the engine r: "idle", "running", "stopping"
    awaiting,           \* toggleListening calls suspended at await getUserMedia
    startCalls,         \* r.start() invocations so far
    lastOp,             \* the handler that ran last
    threw,              \* the handler that ran last ended in an uncaught exception
    logged,             \* what the handler that ran last wrote to the console
    lang,               \* useState("en-US")
    rLang,              \* r.lang (Null before r exists)
    sessionLang         \* the language the engine's current session was started with

vars == << phase, supported, listening, finalTranscript, interimTranscript,
           recognitionRef, timerRef, capturedListening, handlers, engState,
           awaiting, startCalls, lastOp, threw, logged, lang, rLang, sessionLang >>

\* ---------------------------------------------------------------- strings
RECURSIVE TrimLeft(_)
TrimLeft(s) ==
    IF s # <<>> /\ Head(s) = Space THEN TrimLeft(Tail(s)) ELSE s

RECURSIVE TrimRight(_)
TrimRight(s) ==
    IF s # <<>> /\ s[Len(s)] = Space THEN TrimRight(SubSeq(s, 1, Len(s) - 1)) ELSE s

\* String.prototype.trim
Trim(s) == TrimRight(TrimLeft(s))

\* ---------------------------------------------------------------- r.onresult
\* A loop that puts a space between the texts it accumulates.
RECURSIVE AccumulateJoined(_, _, _)
AccumulateJoined(ev, i, wantFinal) ==
    IF i >= Len(ev.results) THEN <<>>
    ELSE LET res  == ev.results[i + 1]
             rest == AccumulateJoined(ev, i + 1, wantFinal)
         IN  IF res.isFinal # wantFinal THEN rest
             ELSE IF rest = <<>> THEN res.transcript
             ELSE res.transcript \o <<Space>> \o rest

\* The loop of r.onresult from 0-based index i: the value of `final` (wantFinal)
\* or of `interim` (~wantFinal), each built with +=.
RECURSIVE Accumulate(_, _, _)
Accumulate(ev, i, wantFinal) ==
    IF i >= Len(ev.results) THEN <<>>
    ELSE LET res == ev.results[i + 1]
         IN  (IF res.isFinal = wantFinal THEN res.transcript ELSE <<>>)
             \o Accumulate(ev, i + 1, wantFinal)

\* The value of highConfidence after the loop, starting from cur at index i.
RECURSIVE HighConfidence(_, _, _)
HighConfidence(ev, i, cur) ==
    IF i >= Len(ev.results) THEN cur
    ELSE LET res == ev.results[i + 1]
         IN  HighConfidence(ev, i + 1, IF res.isFinal THEN res.confidence ELSE cur)

\* The updater passed to setFinalTranscript.
AppendFinal(t, final) ==
    IF t # <<>> THEN t \o <<Space>> \o Trim(final) ELSE Trim(final)

\* The component declares no confidence state: the value the UI can read is
\* never anything but null.
lastConfidence == Null

\* The component declares no permission-denied state either: a denial is
\* written to the console and nothing the UI reads changes.
permissionDeniedFlag == FALSE

\* ---------------------------------------------------------------- the engine r
\* r.start() succeeds on an engine that is not started; otherwise it throws
\* InvalidStateError and changes nothing.
StartSucceeds == engState = "idle"

AfterStart == IF StartSucceeds THEN "running" ELSE engState

\* The language a session runs with is the r.lang read by the start() that
\* began it.
AfterStartLang == IF StartSucceeds THEN rLang ELSE sessionLang

\* r.stop() can fail (throw) only on an engine that is not running.
StopCanFail == engState # "running"

\* r.stop() asks a running engine to end; on any other it changes nothing.
AfterStop == IF engState = "running" THEN "stopping" ELSE engState

\* A React state setter called after the component unmounted changes nothing.
SetState(old, new) == IF phase = "mounted" THEN new ELSE old

\* ---------------------------------------------------------------- initial state
Init ==
    /\ phase = "init"
    /\ supported = TRUE
    /\ listening = FALSE
    /\ finalTranscript = <<>>
    /\ interimTranscript = <<>>
    /\ recognitionRef = FALSE
    /\ timerRef = FALSE
    /\ capturedListening = FALSE
    /\ handlers = FALSE
    /\ engState = "idle"
    /\ awaiting = 0
    /\ startCalls = 0
    /\ lastOp = "render"
    /\ threw = FALSE
    /\ logged = "none"
    /\ lang = "en-US"
    /\ rLang = Null
    /\ sessionLang = Null

\* ---------------------------------------------------------------- mount effect
\* useEffect(() => {...}, []): feature detection, creation of r, installation of
\* the handlers. The handlers close over the `listening` of this first render.
Mount(hasApi) ==
    /\ phase = "init"
    /\ phase' = "mounted"
    /\ IF hasApi
       THEN /\ recognitionRef' = TRUE
            /\ handlers' = TRUE
            /\ capturedListening' = listening
            /\ rLang' = lang
            /\ UNCHANGED supported
       ELSE /\ supported' = FALSE
            /\ UNCHANGED << recognitionRef, handlers, capturedListening, rLang >>
    /\ lastOp' = "mount"
    /\ threw' = FALSE
    /\ logged' = "none"
    /\ UNCHANGED << lang, sessionLang >>
    /\ UNCHANGED << listening, finalTranscript, interimTranscript, timerRef,
                    engState, awaiting, startCalls >>

\* A cleanup that does not stop the engine.
UnmountKeepsEngine(stopFails) ==
    /\ phase = "mounted"
    /\ stopFails => (recognitionRef /\ StopCanFail)
    /\ phase' = "unmounted"
    /\ IF recognitionRef
       THEN /\ timerRef' = FALSE
            /\ handlers' = FALSE
       ELSE UNCHANGED << timerRef, handlers >>
    /\ lastOp' = "unmount"
    /\ threw' = FALSE
    /\ logged' = "none"
    /\ UNCHANGED << lang, rLang, sessionLang, engState >>
    /\ UNCHANGED << supported, listening, finalTranscript, interimTranscript,
                    recognitionRef, capturedListening, awaiting, startCalls >>

\* The cleanup the mount effect returns (none when the API is missing):
\* clearTimeout, the three handlers set to null, r.stop() inside try/catch.
Unmount(stopFails) ==
    /\ phase = "mounted"
    /\ stopFails => (recognitionRef /\ StopCanFail)
    /\ phase' = "unmounted"
    /\ IF recognitionRef
       THEN /\ timerRef' = FALSE
            /\ handlers' = FALSE
            /\ engState' = AfterStop
       ELSE UNCHANGED << timerRef, handlers, engState >>
    /\ lastOp' = "unmount"
    /\ threw' = FALSE
    /\ logged' = "none"
    /\ UNCHANGED << lang, rLang, sessionLang >>
    /\ UNCHANGED << supported, listening, finalTranscript, interimTranscript,
                    recognitionRef, capturedListening, awaiting, startCalls >>

\* ---------------------------------------------------------------- toggleListening
\* A toggleListening without the guard: it goes on to await getUserMedia.
ToggleWithoutGuard ==
    /\ phase = "mounted"
    /\ ~recognitionRef
    /\ awaiting < MaxAwait
    /\ awaiting' = awaiting + 1
    /\ lastOp' = "toggleNoRecognition"
    /\ threw' = FALSE
    /\ logged' = "none"
    /\ UNCHANGED << lang, rLang, sessionLang >>
    /\ UNCHANGED << phase, supported, listening, finalTranscript, interimTranscript,
                    recognitionRef, timerRef, capturedListening, handlers,
                    engState, startCalls >>

\* if (!recognitionRef.current) return;
ToggleNoRecognition ==
    /\ phase = "mounted"
    /\ ~recognitionRef
    /\ lastOp' = "toggleNoRecognition"
    /\ threw' = FALSE
    /\ logged' = "none"
    /\ UNCHANGED << lang, rLang, sessionLang >>
    /\ UNCHANGED << phase, supported, listening, finalTranscript, interimTranscript,
                    recognitionRef, timerRef, capturedListening, handlers,
                    engState, awaiting, startCalls >>

\* The start branch up to `await navigator.mediaDevices.getUserMedia(...)`.
RequestStart ==
    /\ phase = "mounted"
    /\ recognitionRef
    /\ ~listening
    /\ awaiting < MaxAwait
    /\ startCalls + awaiting < MaxStarts
    /\ awaiting' = awaiting + 1
    /\ lastOp' = "requestStart"
    /\ threw' = FALSE
    /\ logged' = "none"
    /\ UNCHANGED << lang, rLang, sessionLang >>
    /\ UNCHANGED << phase, supported, listening, finalTranscript, interimTranscript,
                    recognitionRef, timerRef, capturedListening, handlers,
                    engState, startCalls >>

\* getUserMedia resolved: try { recognitionRef.current.start(); setListening(true) }
\* catch (e) { console.warn(e) }.
PermissionGranted ==
    /\ awaiting > 0
    /\ awaiting' = awaiting - 1
    /\ startCalls' = startCalls + 1
    /\ engState' = AfterStart
    /\ listening' = IF StartSucceeds THEN SetState(listening, TRUE) ELSE listening
    /\ lastOp' = "permissionGranted"
    /\ threw' = FALSE
    /\ logged' = (IF StartSucceeds THEN "none" ELSE "warn")
    /\ sessionLang' = AfterStartLang
    /\ UNCHANGED << lang, rLang >>
    /\ UNCHANGED << phase, supported, finalTranscript, interimTranscript,
                    recognitionRef, timerRef, capturedListening, handlers >>

\* A continuation that, after a rejected getUserMedia, does not return.
PermissionDeniedNoReturn ==
    /\ awaiting > 0
    /\ awaiting' = awaiting - 1
    /\ startCalls' = startCalls + 1
    /\ engState' = AfterStart
    /\ listening' = IF StartSucceeds THEN SetState(listening, TRUE) ELSE listening
    /\ lastOp' = "permissionDenied"
    /\ threw' = FALSE
    /\ logged' = "error"
    /\ sessionLang' = AfterStartLang
    /\ UNCHANGED << lang, rLang >>
    /\ UNCHANGED << phase, supported, finalTranscript, interimTranscript,
                    recognitionRef, timerRef, capturedListening, handlers >>

\* getUserMedia rejected: console.error(...); return.
PermissionDenied ==
    /\ awaiting > 0
    /\ awaiting' = awaiting - 1
    /\ lastOp' = "permissionDenied"
    /\ threw' = FALSE
    /\ logged' = "error"
    /\ UNCHANGED << lang, rLang, sessionLang >>
    /\ UNCHANGED << phase, supported, listening, finalTranscript, interimTranscript,
                    recognitionRef, timerRef, capturedListening, handlers,
                    engState, startCalls >>

\* A stop branch without try/catch: a failing r.stop() ends the handler.
RequestStopUncaught(stopFails) ==
    /\ phase = "mounted"
    /\ recognitionRef
    /\ listening
    /\ stopFails => StopCanFail
    /\ engState' = AfterStop
    /\ listening' = IF stopFails THEN listening ELSE FALSE
    /\ lastOp' = "requestStop"
    /\ threw' = stopFails
    /\ logged' = "none"
    /\ UNCHANGED << lang, rLang, sessionLang >>
    /\ UNCHANGED << phase, supported, finalTranscript, interimTranscript,
                    recognitionRef, timerRef, capturedListening, handlers,
                    awaiting, startCalls >>

\* The stop branch: try { recognitionRef.current.stop() } catch (e)
\* { console.warn(e) }; setListening(false).
RequestStop(stopFails) ==
    /\ phase = "mounted"
    /\ recognitionRef
    /\ listening
    /\ stopFails => StopCanFail
    /\ engState' = AfterStop
    /\ listening' = FALSE
    /\ lastOp' = "requestStop"
    /\ threw' = FALSE
    /\ logged' = (IF stopFails THEN "warn" ELSE "none")
    /\ UNCHANGED << lang, rLang, sessionLang >>
    /\ UNCHANGED << phase, supported, finalTranscript, interimTranscript,
                    recognitionRef, timerRef, capturedListening, handlers,
                    awaiting, startCalls >>

\* ---------------------------------------------------------------- r.onresult
\* if (final) ...: an empty string is falsy.
HasFinalText(final) == final # <<>>

\* A handler that appends the batch's interim text to the displayed one.
AppendInterim(old, interim) == old \o interim

\* setInterimTranscript(interim)
ReplaceInterim(old, interim) == interim

\* finalTranscript after r.onresult(ev)
NextFinal(t, ev) ==
    LET final == Accumulate(ev, ev.resultIndex, TRUE)
    IN  IF HasFinalText(final) THEN AppendFinal(t, final) ELSE t

\* interimTranscript after r.onresult(ev)
NextInterim(old, ev) ==
    LET final   == Accumulate(ev, ev.resultIndex, TRUE)
        interim == Accumulate(ev, ev.resultIndex, FALSE)
    IN  IF HasFinalText(final) THEN <<>> ELSE ReplaceInterim(old, interim)

\* if (highConfidence !== null) setConfidence(highConfidence): setConfidence is
\* declared nowhere, so the call raises a ReferenceError.
OnResultThrows(ev) == HighConfidence(ev, ev.resultIndex, Null) # Null

\* The engine delivers a result event to r.onresult.
EngineResult(ev) ==
    /\ handlers
    /\ engState # "idle"
    /\ finalTranscript' = SetState(finalTranscript, NextFinal(finalTranscript, ev))
    /\ Len(finalTranscript') <= MaxText
    /\ interimTranscript' = SetState(interimTranscript, NextInterim(interimTranscript, ev))
    /\ threw' = OnResultThrows(ev)
    /\ lastOp' = "onresult"
    /\ logged' = "none"
    /\ UNCHANGED << lang, rLang, sessionLang >>
    /\ UNCHANGED << phase, supported, listening, recognitionRef, timerRef,
                    capturedListening, handlers, engState, awaiting, startCalls >>

\* ---------------------------------------------------------------- r.onend
\* A handler that restarts whatever the user asked for.
OnEndRestartsAlways == TRUE

\* if (listening) inside r.onend: the `listening` of the closure.
OnEndRestarts == capturedListening

\* The engine ends (after stop(), or on its own) and fires `end`.
EngineEnd ==
    /\ engState # "idle"
    /\ engState' = "idle"
    /\ IF handlers
       THEN /\ recognitionRef' = TRUE
            /\ timerRef' = IF OnEndRestarts THEN TRUE ELSE timerRef
            /\ lastOp' = "onend"
       ELSE UNCHANGED << recognitionRef, timerRef, lastOp >>
    /\ threw' = FALSE
    /\ logged' = "none"
    /\ sessionLang' = Null
    /\ UNCHANGED << lang, rLang >>
    /\ UNCHANGED << phase, supported, listening, finalTranscript, interimTranscript,
                    capturedListening, handlers, awaiting, startCalls >>

\* r.onerror: console.error(...)
EngineError ==
    /\ handlers
    /\ engState # "idle"
    /\ lastOp' = "onerror"
    /\ threw' = FALSE
    /\ logged' = "error"
    /\ UNCHANGED << lang, rLang, sessionLang >>
    /\ UNCHANGED << phase, supported, listening, finalTranscript, interimTranscript,
                    recognitionRef, timerRef, capturedListening, handlers,
                    engState, awaiting, startCalls >>

\* clearTimeout(timerRef.current) precedes every setTimeout, so the pending
\* restarts are at most the one timerRef.current refers to.
PendingRestarts == IF timerRef THEN 1 ELSE 0

\* ---------------------------------------------------------------- the debounce timer
\* The debounce delay passes: a pending timeout runs () => r.start(), whose
\* exception nothing catches.
Elapse ==
    /\ timerRef => startCalls < MaxStarts
    /\ IF timerRef
       THEN /\ timerRef' = FALSE
            /\ startCalls' = startCalls + 1
            /\ engState' = AfterStart
            /\ threw' = ~StartSucceeds
            /\ sessionLang' = AfterStartLang
       ELSE /\ threw' = FALSE
            /\ UNCHANGED << timerRef, startCalls, engState, sessionLang >>
    /\ lastOp' = "elapse"
    /\ logged' = "none"
    /\ UNCHANGED << lang, rLang >>
    /\ UNCHANGED << phase, supported, listening, finalTranscript, interimTranscript,
                    recognitionRef, capturedListening, handlers, awaiting >>

\* ---------------------------------------------------------------- handleClear
\* A clear that leaves the interim text.
HandleClearKeepsInterim ==
    /\ phase = "mounted"
    /\ supported
    /\ finalTranscript' = <<>>
    /\ threw' = TRUE
    /\ lastOp' = "handleClear"
    /\ logged' = "none"
    /\ UNCHANGED << lang, rLang, sessionLang >>
    /\ UNCHANGED << phase, supported, listening, interimTranscript, recognitionRef,
                    timerRef, capturedListening, handlers, engState, awaiting,
                    startCalls >>

\* setFinalTranscript(""); setInterimTranscript(""); setConfidence(null): the last
\* call raises a ReferenceError after the two updates were queued.
HandleClear ==
    /\ phase = "mounted"
    /\ supported
    /\ finalTranscript' = <<>>
    /\ interimTranscript' = <<>>
    /\ threw' = TRUE
    /\ lastOp' = "handleClear"
    /\ logged' = "none"
    /\ UNCHANGED << lang, rLang, sessionLang >>
    /\ UNCHANGED << phase, supported, listening, recognitionRef, timerRef,
                    capturedListening, handlers, engState, awaiting, startCalls >>

\* ---------------------------------------------------------------- language
\* A language change that never reaches r.
SetLangStateOnly(tag) ==
    /\ phase = "mounted"
    /\ tag # lang
    /\ lang' = tag
    /\ lastOp' = "setLang"
    /\ threw' = FALSE
    /\ logged' = "none"
    /\ UNCHANGED << rLang, sessionLang >>
    /\ UNCHANGED << phase, supported, listening, finalTranscript, interimTranscript,
                    recognitionRef, timerRef, capturedListening, handlers,
                    engState, awaiting, startCalls >>

\* onChange of the <select>: setLang(e.target.value), then the [lang] effect:
\* const r = recognitionRef.current; if (r) r.lang = lang.
SetLang(tag) ==
    /\ phase = "mounted"
    /\ tag # lang
    /\ lang' = tag
    /\ rLang' = IF recognitionRef THEN tag ELSE rLang
    /\ lastOp' = "setLang"
    /\ threw' = FALSE
    /\ logged' = "none"
    /\ UNCHANGED sessionLang
    /\ UNCHANGED << phase, supported, listening, finalTranscript, interimTranscript,
                    recognitionRef, timerRef, capturedListening, handlers,
                    engState, awaiting, startCalls >>

\* ---------------------------------------------------------------- specification
Next ==
    \/ \E hasApi \in BOOLEAN : Mount(hasApi)
    \/ \E stopFails \in BOOLEAN : Unmount(stopFails)
    \/ ToggleNoRecognition
    \/ RequestStart
    \/ PermissionGranted
    \/ PermissionDenied
    \/ \E stopFails \in BOOLEAN : RequestStop(stopFails)
    \/ \E tag \in Languages : SetLang(tag)
    \/ \E ev \in Events : EngineResult(ev)
    \/ EngineEnd
    \/ EngineError
    \/ Elapse
    \/ HandleClear

Spec == Init /\ [][Next]_vars

\* The browser runs a due timeout, and an engine that was told to stop fires
\* `end`; the user's actions and the engine's own ending are not forced.
StopCompletes == engState = "stopping" /\ EngineEnd

SpecFair == Spec /\ WF_vars(Elapse) /\ WF_vars(StopCompletes)

\* The accumulator alone: a session that was started (mount, toggleListening,
\* permission granted) and then only receives result events and clears.
InitMerge ==
    /\ phase = "mounted"
    /\ supported = TRUE
    /\ listening = TRUE
    /\ finalTranscript = <<>>
    /\ interimTranscript = <<>>
    /\ recognitionRef = TRUE
    /\ timerRef = FALSE
    /\ capturedListening = FALSE
    /\ handlers = TRUE
    /\ engState = "running"
    /\ awaiting = 0
    /\ startCalls = 1
    /\ lastOp = "permissionGranted"
    /\ threw = FALSE
    /\ logged = "none"
    /\ lang = "en-US"
    /\ rLang = "en-US"
    /\ sessionLang = "en-US"

NextMerge ==
    \/ \E ev \in Events : EngineResult(ev)
    \/ HandleClear

SpecMerge == InitMerge /\ [][NextMerge]_vars

\* ---------------------------------------------------------------- helpers of the properties
\* The entries r.onresult scans: results[resultIndex .. length-1].
Scanned(ev) == SubSeq(ev.results, ev.resultIndex + 1, Len(ev.results))

IsFinalEntry(res) == res.isFinal

IsInterimEntry(res) == ~res.isFinal

HasFinalEntry(ev) == \E i \in 1..Len(Scanned(ev)) : Scanned(ev)[i].isFinal

\* The top-alternative texts of a list of entries.
TextsOf(entries) == [i \in 1..Len(entries) |-> entries[i].transcript]

\* The texts one after the other, nothing between them.
RECURSIVE Concat(_)
Concat(texts) == IF texts = <<>> THEN <<>> ELSE Head(texts) \o Concat(Tail(texts))

\* The texts with one space between neighbours.
RECURSIVE JoinBySpace(_)
JoinBySpace(texts) ==
    IF texts = <<>> THEN <<>>
    ELSE IF Len(texts) = 1 THEN Head(texts)
    ELSE Head(texts) \o <<Space>> \o JoinBySpace(Tail(texts))

\* A step in which r.onresult handles ev.
Handles(ev) == lastOp' = "onresult" /\ EngineResult(ev)

\* An end event delivered to r.onend: only `end` takes the engine to idle.
EndHandled == handlers /\ engState # "idle" /\ engState' = "idle"

\* A step that invokes r.start().
StartInvoked == startCalls' # startCalls

\* ---------------------------------------------------------------- C1
\* C1: an end event handled while the listening flag is set schedules a restart
\* (so that r.start() runs once the debounce elapses).
C1_EndWhileListeningSchedulesRestart ==
    [][(EndHandled /\ listening) => timerRef']_vars

\* ---------------------------------------------------------------- C2
\* C2: an end event handled after the user stopped (listening flag clear)
\* schedules no restart, invokes no r.start() and leaves the flag clear.
C2_EndAfterStopDoesNothing ==
    [][(EndHandled /\ ~listening)
         => (~timerRef' /\ ~StartInvoked /\ ~listening')]_vars

\* The user started, stopped, and the engine's end event was then handled.
C2_Witness ==
    /\ lastOp = "onend"
    /\ ~listening
    /\ startCalls > 0
    /\ engState = "idle"
    /\ ~timerRef

\* ---------------------------------------------------------------- C3
\* C3: a restart that is pending when the user stops never fires: the stop
\* leaves no timeout pending.
C3_StopCancelsPendingRestart ==
    [][(lastOp' = "requestStop" /\ listening /\ ~listening') => ~timerRef']_vars

\* A restart is pending while the user is listening (the state a stop would
\* have to cancel it in). No reachable state satisfies it: r.onend never sets
\* the timeout.
C3_PendingRestartWhileListening == timerRef /\ listening

\* ---------------------------------------------------------------- C4
\* A step in which the continuation of a rejected getUserMedia runs.
DenialHandled == lastOp' = "permissionDenied" /\ awaiting' = awaiting - 1

\* A step in which the continuation of a resolved getUserMedia runs.
GrantHandled == lastOp' = "permissionGranted" /\ awaiting' = awaiting - 1

\* A step in which a pending timeout fires.
TimerFired == timerRef /\ ~timerRef' /\ lastOp' = "elapse"

\* C4: r.start() is invoked for a start request only in the continuation of its
\* granted permission acquisition (the only other caller being the restart
\* timer); the continuation of a denied acquisition invokes no r.start() and
\* leaves the listening flag and the engine as they were.
C4_StartOnlyAfterGrant ==
    [][ /\ DenialHandled
           => (~StartInvoked /\ listening' = listening /\ engState' = engState)
        /\ StartInvoked => (GrantHandled \/ TimerFired)
        /\ (lastOp' = "requestStart" /\ awaiting' = awaiting + 1)
           => (~StartInvoked /\ engState' = engState /\ listening' = listening)
      ]_vars

\* A start request was denied; the engine was never started and the flag is clear.
C4_Witness ==
    /\ lastOp = "permissionDenied"
    /\ awaiting = 0
    /\ startCalls = 0
    /\ ~listening
    /\ engState = "idle"

\* ---------------------------------------------------------------- C10
\* A step in which handleClear runs.
ClearHandled == lastOp' = "handleClear"

\* C10: handleClear empties finalTranscript and interimTranscript, the readable
\* confidence is null, the listening flag, the engine and the pending restart
\* are left as they were, and a second handleClear changes nothing more.
C10_ClearResetsTranscriptOnly ==
    [][ClearHandled
         => /\ finalTranscript' = <<>>
            /\ interimTranscript' = <<>>
            /\ lastConfidence = Null
            /\ UNCHANGED << listening, engState, timerRef, handlers, awaiting,
                            startCalls, recognitionRef, phase, supported >>
            /\ (lastOp = "handleClear" => UNCHANGED vars)
      ]_vars

\* The transcript was cleared in the middle of a running session.
C10_Witness ==
    /\ lastOp = "handleClear"
    /\ listening
    /\ engState = "running"
    /\ finalTranscript = <<>>
    /\ interimTranscript = <<>>

\* ---------------------------------------------------------------- C5
\* The batch's final text: the texts of the scanned final entries, as r.onresult
\* accumulates them.
BatchFinalText(ev) == Concat(TextsOf(SelectSeq(Scanned(ev), IsFinalEntry)))

\* The batch's interim text, likewise.
BatchInterimText(ev) == Concat(TextsOf(SelectSeq(Scanned(ev), IsInterimEntry)))

\* prev, then a single space when prev is non-empty, then the trimmed text.
Appended(prev, text) ==
    prev \o (IF prev # <<>> THEN <<Space>> ELSE <<>>) \o Trim(text)

\* C5: after a result event whose scanned entries contain a final entry,
\* finalTranscript is the previous one followed by a space (when non-empty) and
\* the trimmed final text of the batch, and interimTranscript is empty.
C5_FinalBatchAppendsAndClearsInterim ==
    [][\A ev \in Events :
         (HasFinalEntry(ev) /\ Handles(ev))
           => /\ finalTranscript' = Appended(finalTranscript, BatchFinalText(ev))
              /\ interimTranscript' = <<>>
      ]_vars

\* ---------------------------------------------------------------- C6
\* C6: after a result event whose scanned entries contain no final entry,
\* interimTranscript is the interim text of that batch alone and
\* finalTranscript is unchanged.
C6_InterimBatchReplacesInterim ==
    [][\A ev \in Events :
         (~HasFinalEntry(ev) /\ Handles(ev))
           => /\ interimTranscript' = Concat(TextsOf(Scanned(ev)))
              /\ finalTranscript' = finalTranscript
      ]_vars

\* An interim batch was handled after a final one: committed text and a
\* non-empty interim tail.
C6_Witness ==
    /\ lastOp = "onresult"
    /\ ~threw
    /\ finalTranscript # <<>>
    /\ interimTranscript = <<"a">>

\* ---------------------------------------------------------------- C7
\* C7 as stated: the texts of the final entries of one event are joined by a
\* single space to form the batch's final text, those of the non-final entries
\* to form its interim text.
C7_BatchTextsJoinedBySpace ==
    [][\A ev \in Events :
         Handles(ev)
           => LET final   == JoinBySpace(TextsOf(SelectSeq(Scanned(ev), IsFinalEntry)))
                  interim == JoinBySpace(TextsOf(SelectSeq(Scanned(ev), IsInterimEntry)))
              IN  IF final # <<>>
                  THEN finalTranscript' = Appended(finalTranscript, final)
                  ELSE interimTranscript' = interim
      ]_vars

\* C7 amended: the texts of the final entries of one event are concatenated in
\* stream order, nothing inserted between them, to form the batch's final
\* text, and those of the non-final entries to form its interim text.
C7_BatchTextsConcatenated ==
    [][\A ev \in Events :
         Handles(ev)
           => IF BatchFinalText(ev) # <<>>
              THEN finalTranscript' = Appended(finalTranscript, BatchFinalText(ev))
              ELSE interimTranscript' = BatchInterimText(ev)
      ]_vars

\* Two non-final entries "a" and "a" were handled in one event.
C7_Witness ==
    /\ lastOp = "onresult"
    /\ interimTranscript = <<"a", "a">>

\* ---------------------------------------------------------------- C8
\* C8: a result event with nothing to scan (resultIndex = results.length)
\* changes neither transcript nor the confidence and raises no error.
C8_EmptyEventIsNoOp ==
    [][\A ev \in Events :
         (ev.resultIndex = Len(ev.results) /\ Handles(ev))
           => /\ finalTranscript' = finalTranscript
              /\ interimTranscript' = interimTranscript
              /\ lastConfidence = Null
              /\ ~threw'
      ]_vars

\* ---------------------------------------------------------------- C9
\* The confidence of the last scanned final entry.
LastFinalConfidence(ev) ==
    LET finals == SelectSeq(Scanned(ev), IsFinalEntry)
    IN  finals[Len(finals)].confidence

\* C9: after a result event with final entries, the readable confidence is the
\* confidence of the last final entry of the batch, and the handler raised no
\* error.
C9_LastConfidencePublished ==
    [][\A ev \in Events :
         (HasFinalEntry(ev) /\ Handles(ev))
           => (lastConfidence = LastFinalConfidence(ev) /\ ~threw')
      ]_vars

\* ---------------------------------------------------------------- C11
\* A step in which the stop branch of toggleListening runs.
StopHandled == listening /\ lastOp' = "requestStop"

\* C11: a stop request never ends in an exception and leaves the listening
\* flag clear, whatever the engine's state and whether or not r.stop() failed;
\* it invokes no r.start().
C11_StopNeverThrowsLeavesIdle ==
    [][StopHandled => (~listening' /\ ~threw' /\ ~StartInvoked /\ engState' # "running")]_vars

\* A stop request found the engine already ended; r.stop() failed and the
\* failure was swallowed (console.warn).
C11_Witness ==
    /\ lastOp = "requestStop"
    /\ logged = "warn"
    /\ engState = "idle"
    /\ ~listening
    /\ ~threw

\* ---------------------------------------------------------------- C12
\* A step in which the effect cleanup of a component that owns an engine runs.
TeardownHandled == phase = "mounted" /\ phase' = "unmounted" /\ recognitionRef

\* C12: the cleanup leaves no timeout pending, detaches the handlers and tells
\* the engine to stop without raising; afterwards no step changes the state
\* the UI reads, none schedules a restart, and there is no second cleanup.
C12_TeardownIsFinal ==
    [][ /\ TeardownHandled
           => (~timerRef' /\ ~handlers' /\ engState' # "running" /\ ~threw')
        /\ phase = "unmounted"
           => /\ UNCHANGED << phase, supported, listening, finalTranscript,
                              interimTranscript, lang, handlers >>
              /\ ~timerRef'
              /\ PendingRestarts' = 0
      ]_vars

\* The cleanup ran in the middle of a session that had produced text.
C12_Witness ==
    /\ phase = "unmounted"
    /\ engState = "stopping"
    /\ listening
    /\ finalTranscript # <<>>

\* ---------------------------------------------------------------- C13
\* C13: once an end event was handled while the listening flag is set, exactly
\* one restart is pending (never none, never two).
C13_ExactlyOneRestartAfterEnd ==
    (lastOp = "onend" /\ listening) => PendingRestarts = 1

\* ---------------------------------------------------------------- C14
\* C14: a component mounted on a host without the recognition API has
\* supported = false and no engine, and then no permission acquisition is ever
\* pending, r.start() is never invoked and the listening flag stays clear.
C14_UnsupportedDisablesStart ==
    /\ phase # "init" => (supported <=> recognitionRef)
    /\ ~supported
         => (awaiting = 0 /\ startCalls = 0 /\ ~listening /\ engState = "idle")

\* toggleListening was called on a host without the API.
C14_Witness ==
    /\ ~supported
    /\ lastOp = "toggleNoRecognition"

\* ---------------------------------------------------------------- C15
\* C15: after a denied permission acquisition the permission-denied flag the UI
\* reads is set.
C15_DenialSetsFlag ==
    lastOp = "permissionDenied" => permissionDeniedFlag

\* ---------------------------------------------------------------- C16
\* A step in which the language is changed.
LanguageChanged == lang' # lang

\* C16: a language change reaches lang (and r.lang) at once and touches neither
\* the engine, the listening flag nor the transcript; the running session keeps
\* its language; every session that starts runs with the current lang.
C16_SetLanguageTakesEffectOnNextStart ==
    [][ /\ LanguageChanged
           => /\ recognitionRef => rLang' = lang'
              /\ UNCHANGED << listening, engState, sessionLang, finalTranscript,
                              interimTranscript, startCalls, awaiting, timerRef >>
        /\ (engState = "idle" /\ engState' = "running") => sessionLang' = lang
      ]_vars

\* The language was changed while a session runs with the previous one.
C16_Witness ==
    /\ lastOp = "setLang"
    /\ engState = "running"
    /\ sessionLang = "en-US"
    /\ lang = "hi-IN"

\* ---------------------------------------------------------------- C17
\* C17: whenever the listening flag is set and the engine has ended, the engine
\* is eventually running again or the flag is cleared; whenever the flag is
\* clear, the engine eventually is not running.
C17_EngineFollowsDesiredState ==
    /\ (phase = "mounted" /\ listening /\ engState = "idle")
         ~> (engState = "running" \/ ~listening \/ phase # "mounted")
    /\ (phase = "mounted" /\ ~listening)
         ~> (engState = "idle" \/ listening \/ phase # "mounted")

\* ---------------------------------------------------------------- C18
\* C18: a restart timer fired and its r.start() failed. No reachable state
\* satisfies it: r.onend never sets the timeout.
C18_FailedRestart == lastOp = "elapse" /\ threw

\* ---------------------------------------------------------------- C19
\* C19: no r.start() is invoked once the component is unmounted.
C19_NoStartAfterTeardown ==
    [][phase = "unmounted" => ~StartInvoked]_vars

\* ---------------------------------------------------------------- C20
\* C20: the continuation of a granted start request that finds the session
\* already listening, its engine running, invokes no r.start(), reports
\* nothing and leaves the listening flag set.
C20_DuplicateStartIsNoOp ==
    [][(GrantHandled /\ phase = "mounted" /\ listening /\ engState = "running")
         => (~StartInvoked /\ logged' = "none" /\ listening')]_vars

====
